---- MODULE Spec2Model ----
(***************************************************************************)
(* LiteView (src/main.py): a tray-controlled screen mirror.                *)
(*                                                                         *)
(* The model follows the single-threaded Qt event loop: every action is    *)
(* one handler (a slot, a timer tick, a posted deferred deletion) or one   *)
(* change of the environment (a screen plugged in or removed).             *)
(***************************************************************************)
EXTENDS Integers, Sequences, FiniteSets, TLC

\* ------------------------------------------------------------------ bounds
MaxScreens == 2      \* most screens connected at once
MaxViewers == 2      \* ScreenViewer objects constructed in one run

\* ------------------------------------------------------- program constants
DefaultSize == 5             \* CursorSettings.__init__
DefaultThickness == 0        \* CursorSettings.__init__
BrightCrossSize == 10        \* preset "Helles Kreuz"
BrightCrossThickness == 2    \* preset "Helles Kreuz"
SizeSpinMin == 1             \* size_spin.setRange
SizeSpinMax == 10000
ThicknessSpinMin == 0        \* thickness_spin.setRange
ThicknessSpinMax == 20

NoSelection == -1            \* selected_screen = None
NoViewer == 0                \* viewer = None

\* ------------------------------------------------------------- input sets
None == "None"
Frames == {"f1", "f2"}                        \* what a grab can show
SizeChoices == {DefaultSize, BrightCrossSize} \* values typed into size_spin
ThicknessChoices == {DefaultThickness, BrightCrossThickness}
ColorChoices == {"red", "yellow", "invalid"}  \* QColorDialog.getColor results
Presets == {"Standard", "Deaktiviert", "Helles Kreuz"}
StyleTexts == {"Kreis", "Kreuz"}
\* What the capture mechanism does: grim exits non-zero ("fail", Wayland only),
\* the image is null ("null"), or a frame is delivered ("ok").
CaptureOutcomes(w) == IF w THEN {"ok", "fail", "null"} ELSE {"ok", "null"}

ViewerIds == 1..MaxViewers

\* screens()[index].geometry(): the screens sit side by side, the primary
\* screen 0 rightmost, with screen 1 at the origin of the desktop.
Geometry(index) == [x |-> 1 - index, y |-> 0, width |-> 1, height |-> 1]

\* QCursor.pos(): on the top-left corner of screen 1 (left of screen 0), on
\* the corner screens 0 and 1 share, on the far corner of screen 0, and below
\* the screens.
Pointers == {<<0, 0>>, <<1, 1>>, <<2, 1>>, <<0, 2>>}

VARIABLES
    proc,             \* "start", "running", "exit0", "exit1", "aborted"
    uncaught,         \* exception that escaped a slot, or None
    screens,          \* len(QApplication.screens()), the live screen count
    wayland,          \* os.getenv("WAYLAND_DISPLAY") is set
    cursor_settings,  \* the global CursorSettings object
    dialog,           \* the open CursorSettingsDialog, or closed
    preview,          \* the open ScreenPreview dialog, or closed
    quick_menu,       \* the popped-up quick settings menu
    selected_screen,  \* SystemTrayIcon.selected_screen
    viewer,           \* SystemTrayIcon.viewer: a viewer id or None
    viewers,          \* every ScreenViewer object by id
    fs,               \* temporary files that exist on disk
    lastCapture,      \* what the capture call of the step just taken did
    lastTick,         \* the timer tick just taken: its viewer, the pointer
                      \* position it read and the painter calls it made
    lastAccept        \* the dialog as it stood when the step just taken
                      \* accepted it

vars == <<proc, uncaught, screens, wayland, cursor_settings, dialog,
          preview, quick_menu, selected_screen, viewer, viewers, fs,
          lastCapture, lastTick, lastAccept>>

\* --------------------------------------------------------- CursorSettings
CursorSettings == [enabled |-> TRUE, style |-> "circle", size |-> DefaultSize,
                   thickness |-> DefaultThickness, color |-> "red"]

\* ------------------------------------------------------------------ frames
\* A pixmap is named by the frame it was made from.
NoPixmap == None
NoCapture == [status |-> None, index |-> 0, count |-> 0, grabWindow |-> FALSE,
              grim |-> FALSE, tmpCreated |-> 0]

\* Python list indexing: negative indices count from the end.
PyIndexOk(i, n) == -n <= i /\ i < n
PyIndex(i, n) == IF i >= 0 THEN i ELSE n + i

\* ------------------------------------------------------------ Frame Source
\* The range check with > in place of >=.
CheckMonitorOffByOne(monitor_index, n) ==
    IF n = 0 THEN "NoScreens"
    ELSE IF monitor_index < 0 \/ monitor_index > n THEN "InvalidIndex"
    ELSE "ok"

\* The checks both capture paths make on the live screen list before
\* touching the capture mechanism.
CheckMonitor(monitor_index, n) ==
    IF n = 0 THEN "NoScreens"
    ELSE IF monitor_index < 0 \/ monitor_index >= n THEN "InvalidIndex"
    ELSE "ok"

\* tempfile.NamedTemporaryFile(delete=False): a new, uniquely named file.
FreshName(files) == CHOOSE n \in 1..(Cardinality(files) + 1) : n \notin files

\* The removal at the end of the try block instead of in a finally block.
WaylandCleanupOnSuccess(files, filename, status) ==
    IF status = "ok" THEN files \ {filename} ELSE files

\* The finally block: the file is removed whatever the try block did.
WaylandCleanup(files, filename, status) == files \ {filename}

capture_screen_monitor_wayland(monitor_index, scr, files, out, frame) ==
    LET chk == CheckMonitor(monitor_index, scr)
        filename == FreshName(files)
        created == files \cup {filename}
        status == IF out = "fail" THEN "ToolFailed"
                  ELSE IF out = "null" THEN "EmptyImage"
                  ELSE "ok"
    IN  IF chk # "ok"
        THEN [status |-> chk, image |-> None, index |-> monitor_index,
              count |-> scr, grabWindow |-> FALSE, grim |-> FALSE,
              tmpCreated |-> 0, files |-> files]
        ELSE [status |-> status,
              image |-> IF status = "ok" THEN frame ELSE None,
              index |-> monitor_index, count |-> scr,
              grabWindow |-> FALSE, grim |-> TRUE, tmpCreated |-> 1,
              files |-> WaylandCleanup(created, filename, status)]

capture_screen_monitor(monitor_index, scr, files, w, out, frame) ==
    IF w
    THEN capture_screen_monitor_wayland(monitor_index, scr, files, out, frame)
    ELSE LET chk == CheckMonitor(monitor_index, scr)
             status == IF out = "ok" THEN "ok" ELSE "EmptyImage"
         IN  IF chk # "ok"
             THEN [status |-> chk, image |-> None, index |-> monitor_index,
                   count |-> scr, grabWindow |-> FALSE, grim |-> FALSE,
                   tmpCreated |-> 0, files |-> files]
             ELSE [status |-> status,
                   image |-> IF status = "ok" THEN frame ELSE None,
                   index |-> monitor_index, count |-> scr,
                   grabWindow |-> TRUE, grim |-> FALSE, tmpCreated |-> 0,
                   files |-> files]

\* The part of a capture result kept for inspection.
CaptureRecord(cap) ==
    [status |-> cap.status, index |-> cap.index, count |-> cap.count,
     grabWindow |-> cap.grabWindow, grim |-> cap.grim,
     tmpCreated |-> cap.tmpCreated]

\* -------------------------------------------------------- Cursor Annotator
Draw(op, a, b, c, d) == [op |-> op, a |-> a, b |-> b, c |-> c, d |-> d]

\* The range test with the far edges left out.
PointerInsideExclusive(mouse_x, mouse_y, geom) ==
    /\ 0 <= mouse_x /\ mouse_x < geom.width
    /\ 0 <= mouse_y /\ mouse_y < geom.height

\* 0 <= mouse_x <= width and 0 <= mouse_y <= height
PointerInside(mouse_x, mouse_y, geom) ==
    /\ 0 <= mouse_x /\ mouse_x <= geom.width
    /\ 0 <= mouse_y /\ mouse_y <= geom.height

\* Pointer position relative to the monitor's top-left corner.
LocalPointer(px, py, geom) == [x |-> px - geom.x, y |-> py - geom.y]

\* The painter calls update_screen makes on the captured image.
Annotate(cs, geom, px, py) ==
    LET m == LocalPointer(px, py, geom)
    IN  IF ~cs.enabled THEN <<>>
        ELSE IF ~PointerInside(m.x, m.y, geom) THEN <<>>
        ELSE IF cs.style = "circle"
             THEN <<Draw("ellipse", m.x - cs.size, m.y - cs.size,
                         2 * cs.size, 2 * cs.size)>>
        ELSE IF cs.style = "cross"
             THEN <<Draw("line", m.x - cs.size, m.y, m.x + cs.size, m.y),
                    Draw("line", m.x, m.y - cs.size, m.x, m.y + cs.size)>>
        ELSE <<>>

\* An except clause that names RuntimeError alone.
CatchesRuntimeErrorOnly(status) == status \in {"NoScreens", "EmptyImage"}

\* except Exception: every failure of the capture is caught in the handler.
Catches(status) == TRUE

\* ------------------------------------------------------------ ScreenViewer
Unborn == [life |-> "unborn", monitor_index |-> 0, visible |-> FALSE,
           timerActive |-> FALSE, deleteLater |-> FALSE,
           current_pixmap |-> NoPixmap, label_pixmap |-> NoPixmap]

\* A destroyed QWidget: its child QTimer died with it.
Destroyed == [Unborn EXCEPT !.life = "destroyed"]

CanConstruct == \E n \in ViewerIds : viewers[n].life = "unborn"
NewId(vs) == CHOOSE n \in ViewerIds :
                /\ vs[n].life = "unborn"
                /\ \A m \in ViewerIds : vs[m].life = "unborn" => n <= m

\* ScreenViewer.__init__ once screens()[monitor_index] has succeeded:
\* the timer is started, no pixmap yet, the window not yet shown.
NewViewer(monitor_index) ==
    [life |-> "alive", monitor_index |-> monitor_index, visible |-> FALSE,
     timerActive |-> TRUE, deleteLater |-> FALSE,
     current_pixmap |-> NoPixmap, label_pixmap |-> NoPixmap]

\* ScreenViewer.__init__ raises IndexError at screens()[monitor_index].
ConstructorRaises(monitor_index, scr) == ~PyIndexOk(monitor_index, scr)

\* A closeEvent that stops the timer when it hides the window.
closeEventStopsTimer(w) == [w EXCEPT !.visible = FALSE, !.timerActive = FALSE]

\* closeEvent: the close is refused and the window hidden; the timer is
\* not touched.
closeEvent(w) == [w EXCEPT !.visible = FALSE]

\* self.viewer.close(); self.viewer.deleteLater()
CloseAndDeleteLater(vs, v) ==
    [vs EXCEPT ![v] = [closeEvent(vs[v]) EXCEPT !.deleteLater = TRUE]]

NoTick == [v |-> NoViewer, px |-> 0, py |-> 0, drawn |-> <<>>]

ClosedDialog == [open |-> FALSE, enabled_checkbox |-> FALSE,
                 style_combo |-> "Kreis", size_spin |-> SizeSpinMin,
                 thickness_spin |-> ThicknessSpinMin,
                 predefined_combo |-> "Standard"]

\* A step that is neither a tick nor a capture nor an accepted dialog.
Quiet == lastTick' = NoTick /\ lastCapture' = NoCapture /\
         lastAccept' = ClosedDialog

\* ------------------------------------------------------------------- Init
ClosedPreview == [open |-> FALSE, n |-> 0]
ClosedMenu == [shown |-> FALSE, n |-> 0, startstop |-> "start"]

\* A modal dialog (exec) or a popped-up menu takes the user's input: while
\* one is open the user acts on it alone.  Timers, posted events and screen
\* changes go on.
NoModal == ~dialog.open /\ ~preview.open

\* deleteLater posts a DeferredDelete event, which the event loop delivers
\* when control returns to it: ahead of the user's next input, but not
\* ahead of a timer that is already due or a screen change.
NoPostedEvents == \A n \in ViewerIds : ~viewers[n].deleteLater
UserCanAct == proc = "running" /\ NoPostedEvents
UserIdle == NoModal /\ ~quick_menu.shown

Init ==
    /\ proc = "start"
    /\ uncaught = None
    /\ screens \in 0..MaxScreens
    /\ wayland \in BOOLEAN
    /\ cursor_settings = CursorSettings
    /\ dialog = ClosedDialog
    /\ preview = ClosedPreview
    /\ quick_menu = ClosedMenu
    /\ selected_screen = NoSelection
    /\ viewer = NoViewer
    /\ viewers = [n \in ViewerIds |-> Unborn]
    /\ fs = {}
    /\ lastCapture = NoCapture
    /\ lastTick = NoTick
    /\ lastAccept = ClosedDialog

\* ------------------------------------------------------------------- main
main ==
    /\ proc = "start"
    /\ \E iconOk \in BOOLEAN :
          proc' = IF screens = 0 THEN "exit1"
                  ELSE IF ~iconOk THEN "exit1"
                  ELSE "running"
    /\ Quiet
    /\ UNCHANGED <<uncaught, screens, wayland, cursor_settings,
                   dialog, preview, quick_menu, selected_screen, viewer,
                   viewers, fs>>

\* Tray menu "Beenden": QApplication.quit, app.exec() returns 0.
quit ==
    /\ UserCanAct
    /\ UserIdle
    /\ proc' = "exit0"
    /\ Quiet
    /\ UNCHANGED <<uncaught, screens, wayland, cursor_settings,
                   dialog, preview, quick_menu, selected_screen, viewer,
                   viewers, fs>>

\* ------------------------------------------------------------ environment
ScreenAdded ==
    /\ proc = "running"
    /\ screens < MaxScreens
    /\ screens' = screens + 1
    /\ Quiet
    /\ UNCHANGED <<proc, uncaught, wayland, cursor_settings, dialog,
                   preview, quick_menu, selected_screen, viewer, viewers, fs>>

ScreenRemoved ==
    /\ proc = "running"
    /\ screens > 0
    /\ screens' = screens - 1
    /\ Quiet
    /\ UNCHANGED <<proc, uncaught, wayland, cursor_settings, dialog,
                   preview, quick_menu, selected_screen, viewer, viewers, fs>>

\* ------------------------------------------------------------ Render Loop
\* One timeout of a viewer's QTimer: ScreenViewer.update_screen.
update_screen(v) ==
    /\ proc = "running"
    /\ viewers[v].life = "alive"
    /\ viewers[v].timerActive
    /\ \E out \in CaptureOutcomes(wayland), frame \in Frames :
          LET mi == viewers[v].monitor_index
              cap == capture_screen_monitor(mi, screens, fs, wayland, out,
                                            frame)
          IN  /\ fs' = cap.files
              /\ lastCapture' = CaptureRecord(cap)
              /\ IF cap.status # "ok"
                 THEN \* the exception leaves the try block at once
                      /\ frame = "f1"
                      /\ lastTick' = [NoTick EXCEPT !.v = v]
                      /\ UNCHANGED viewers
                      /\ IF Catches(cap.status)
                         THEN UNCHANGED <<uncaught, proc>>
                         ELSE uncaught' = cap.status /\ proc' = "aborted"
                 ELSE \* a non-null image always converts to a pixmap
                      \E ptr \in Pointers :
                         /\ lastTick' =
                              [v |-> v, px |-> ptr[1], py |-> ptr[2],
                               drawn |-> Annotate(cursor_settings,
                                            Geometry(PyIndex(mi, screens)),
                                            ptr[1], ptr[2])]
                         /\ viewers' = [viewers EXCEPT
                                          ![v].current_pixmap = cap.image,
                                          ![v].label_pixmap = cap.image]
                         /\ UNCHANGED <<uncaught, proc>>
    /\ lastAccept' = ClosedDialog
    /\ UNCHANGED <<screens, wayland, cursor_settings, dialog, preview,
                   quick_menu, selected_screen, viewer>>

\* The event loop delivers the DeferredDelete event posted by deleteLater.
DeferredDelete(v) ==
    /\ proc = "running"
    /\ viewers[v].life = "alive"
    /\ viewers[v].deleteLater
    /\ viewers' = [viewers EXCEPT ![v] = Destroyed]
    /\ Quiet
    /\ UNCHANGED <<proc, uncaught, screens, wayland, cursor_settings,
                   dialog, preview, quick_menu, selected_screen, viewer, fs>>

\* --------------------------------------------------------- SystemTrayIcon
Tray(sel, vw, vs, exc, made) ==
    [selected_screen |-> sel, viewer |-> vw, viewers |-> vs,
     uncaught |-> exc, constructs |-> made]

\* viewer = ScreenViewer(index); viewer.show(), with the old viewer gone.
ConstructAndShow(sel, vs, scr) ==
    IF ConstructorRaises(sel, scr)
    THEN Tray(sel, NoViewer, vs, "IndexError", FALSE)
    ELSE IF \A m \in ViewerIds : vs[m].life # "unborn"
    THEN Tray(sel, NoViewer, vs, None, TRUE)   \* past MaxViewers: not taken
    ELSE LET n == NewId(vs)
         IN  Tray(sel, n,
                  [vs EXCEPT ![n] = [NewViewer(sel) EXCEPT !.visible = TRUE]],
                  None, TRUE)

\* The body of on_start_program.
StartProgram(sel, vw, vs, scr) ==
    LET sel1 == IF sel = NoSelection THEN 0 ELSE sel
        stale == vw # NoViewer /\ vs[vw].monitor_index # sel1
        vs1 == IF stale THEN CloseAndDeleteLater(vs, vw) ELSE vs
        vw1 == IF stale THEN NoViewer ELSE vw
    IN  IF vw1 = NoViewer
        THEN ConstructAndShow(sel1, vs1, scr)
        ELSE Tray(sel1, vw1, [vs1 EXCEPT ![vw1].visible = TRUE], None, FALSE)

\* An on_stop_program that closes the viewer and keeps it.
StopProgramKeepsViewer(sel, vw, vs) ==
    IF vw # NoViewer
    THEN Tray(sel, vw, [vs EXCEPT ![vw] = closeEvent(vs[vw])], None, FALSE)
    ELSE Tray(sel, vw, vs, None, FALSE)

\* The body of on_stop_program.
StopProgram(sel, vw, vs) ==
    IF vw # NoViewer
    THEN Tray(sel, NoViewer, CloseAndDeleteLater(vs, vw), None, FALSE)
    ELSE Tray(sel, vw, vs, None, FALSE)

\* A quick_select_screen(index) that shows the viewer the tray already holds.
QuickSelectReshows(index, vw, vs, scr) ==
    IF vw # NoViewer
    THEN Tray(index, vw, [vs EXCEPT ![vw].visible = TRUE], None, FALSE)
    ELSE ConstructAndShow(index, vs, scr)

\* The body of quick_select_screen(index).
QuickSelect(index, vw, vs, scr) ==
    LET vs1 == IF vw # NoViewer THEN CloseAndDeleteLater(vs, vw) ELSE vs
    IN  ConstructAndShow(index, vs1, scr)

\* on_select_screen after dialog.exec() returned Accepted with new_screen.
SelectScreen(new_screen, sel, vw, vs, scr) ==
    IF sel # new_screen
    THEN LET vs1 == IF vw # NoViewer THEN CloseAndDeleteLater(vs, vw) ELSE vs
         IN  StartProgram(new_screen, NoViewer, vs1, scr)
    ELSE Tray(sel, vw, vs, None, FALSE)

\* A slot ends: its effects stay, and an exception that escaped it ends the
\* process (PyQt6 aborts on an unhandled exception in a slot).
Finish(r) ==
    /\ r.constructs => CanConstruct
    /\ selected_screen' = r.selected_screen
    /\ viewer' = r.viewer
    /\ viewers' = r.viewers
    /\ uncaught' = r.uncaught
    /\ proc' = IF r.uncaught = None THEN proc ELSE "aborted"
    /\ Quiet

on_start_program ==
    /\ UserCanAct
    /\ UserIdle
    /\ Finish(StartProgram(selected_screen, viewer, viewers, screens))
    /\ UNCHANGED <<screens, wayland, cursor_settings, dialog, preview,
                   quick_menu, fs>>

on_stop_program ==
    /\ UserCanAct
    /\ UserIdle
    /\ Finish(StopProgram(selected_screen, viewer, viewers))
    /\ UNCHANGED <<screens, wayland, cursor_settings, dialog, preview,
                   quick_menu, fs>>

\* Left click on the tray icon: the quick menu lists the screens of now.
show_quick_settings ==
    /\ UserCanAct
    /\ NoModal
    /\ quick_menu' =
         [shown |-> TRUE, n |-> screens,
          startstop |-> IF viewer # NoViewer /\ viewers[viewer].visible
                        THEN "stop" ELSE "start"]
    /\ Quiet
    /\ UNCHANGED <<proc, uncaught, screens, wayland, cursor_settings,
                   dialog, preview, selected_screen, viewer, viewers, fs>>

\* The quick menu is dismissed without a choice.
quick_dismiss ==
    /\ UserCanAct
    /\ quick_menu.shown
    /\ quick_menu' = ClosedMenu
    /\ Quiet
    /\ UNCHANGED <<proc, uncaught, screens, wayland, cursor_settings,
                   dialog, preview, selected_screen, viewer, viewers, fs>>

\* Quick menu entry "Bildschirm idx", idx as listed when the menu was built.
quick_select_screen ==
    /\ UserCanAct
    /\ quick_menu.shown
    /\ \E idx \in 0..(quick_menu.n - 1) :
          Finish(QuickSelect(idx, viewer, viewers, screens))
    /\ quick_menu' = ClosedMenu
    /\ UNCHANGED <<screens, wayland, cursor_settings, dialog, preview,
                   fs>>

\* Quick menu entry "Mirror einschalten" / "Mirror ausschalten".
quick_start_stop ==
    /\ UserCanAct
    /\ quick_menu.shown
    /\ IF quick_menu.startstop = "stop"
       THEN Finish(StopProgram(selected_screen, viewer, viewers))
       ELSE Finish(StartProgram(selected_screen, viewer, viewers, screens))
    /\ quick_menu' = ClosedMenu
    /\ UNCHANGED <<screens, wayland, cursor_settings, dialog, preview,
                   fs>>

\* Quick menu entry "Cursor: Ein/Aus".
toggle_cursor ==
    /\ UserCanAct
    /\ quick_menu.shown
    /\ cursor_settings' =
         [cursor_settings EXCEPT !.enabled = ~cursor_settings.enabled]
    /\ quick_menu' = ClosedMenu
    /\ Quiet
    /\ UNCHANGED <<proc, uncaught, screens, wayland, dialog, preview,
                   selected_screen, viewer, viewers, fs>>

\* ------------------------------------------------------------ ScreenPreview
\* ScreenPreview.__init__ captures every listed screen once, each inside
\* its own try/except.
RECURSIVE PreviewCaptures(_, _, _, _, _, _)
PreviewCaptures(index, scr, files, w, outs, last) ==
    IF index >= scr THEN [files |-> files, last |-> last]
    ELSE LET cap == capture_screen_monitor(index, scr, files, w,
                                           outs[index + 1], "f1")
         IN  PreviewCaptures(index + 1, scr, cap.files, w, outs,
                             CaptureRecord(cap))

\* on_select_screen up to dialog.exec().
on_select_screen_open ==
    /\ UserCanAct
    /\ UserIdle
    /\ \E outs \in [1..screens -> CaptureOutcomes(wayland)] :
          LET r == PreviewCaptures(0, screens, fs, wayland, outs, lastCapture)
          IN  /\ fs' = r.files
              /\ lastCapture' = r.last
    /\ preview' = [open |-> TRUE, n |-> screens]
    /\ lastTick' = NoTick
    /\ lastAccept' = ClosedDialog
    /\ UNCHANGED <<proc, uncaught, screens, wayland, cursor_settings,
                   dialog, quick_menu, selected_screen, viewer, viewers>>

\* A preview label is clicked: select_screen(idx), accept, and the rest of
\* on_select_screen.
on_select_screen_accept ==
    /\ UserCanAct
    /\ preview.open
    /\ \E idx \in 0..(preview.n - 1) :
          Finish(SelectScreen(idx, selected_screen, viewer, viewers, screens))
    /\ preview' = ClosedPreview
    /\ UNCHANGED <<screens, wayland, cursor_settings, dialog,
                   quick_menu, fs>>

\* The preview dialog is closed without a choice.
on_select_screen_reject ==
    /\ UserCanAct
    /\ preview.open
    /\ preview' = ClosedPreview
    /\ Quiet
    /\ UNCHANGED <<proc, uncaught, screens, wayland, cursor_settings,
                   dialog, quick_menu, selected_screen, viewer, viewers, fs>>

\* A close request reaches a mirror window (the window system, Alt+F4).
window_close(v) ==
    /\ UserCanAct
    /\ viewers[v].life = "alive"
    /\ viewers[v].visible
    /\ UserIdle
    /\ viewers' = [viewers EXCEPT ![v] = closeEvent(viewers[v])]
    /\ Quiet
    /\ UNCHANGED <<proc, uncaught, screens, wayland, cursor_settings,
                   dialog, preview, quick_menu, selected_screen, viewer, fs>>

\* ----------------------------------------------------- CursorSettingsDialog
\* QSpinBox.setValue keeps the value inside the range.
Clamp(v, lo, hi) == IF v < lo THEN lo ELSE IF v > hi THEN hi ELSE v

\* CursorSettingsDialog.__init__: the widgets show the current settings and
\* the preset box starts on its first entry.
OpenDialog(cs) ==
    [open |-> TRUE,
     enabled_checkbox |-> cs.enabled,
     style_combo |-> IF cs.style = "circle" THEN "Kreis" ELSE "Kreuz",
     size_spin |-> Clamp(cs.size, SizeSpinMin, SizeSpinMax),
     thickness_spin |-> Clamp(cs.thickness, ThicknessSpinMin,
                              ThicknessSpinMax),
     predefined_combo |-> "Standard"]

\* select_color without the isValid test.
SelectColorUnchecked(cs, color) == [cs EXCEPT !.color = color]

\* select_color: a valid colour is written straight into the settings
\* object the dialog was given.
SelectColor(cs, color) ==
    IF color # "invalid" THEN [cs EXCEPT !.color = color] ELSE cs

\* accept with the preset applied before the widget values are written.
AcceptPresetFirst(cs, d) ==
    LET preset == IF d.predefined_combo = "Deaktiviert"
                  THEN [cs EXCEPT !.enabled = FALSE]
                  ELSE IF d.predefined_combo = "Helles Kreuz"
                  THEN [cs EXCEPT !.color = "yellow"]
                  ELSE cs
    IN  [preset EXCEPT
           !.enabled = d.enabled_checkbox,
           !.style = IF d.style_combo = "Kreis" THEN "circle" ELSE "cross",
           !.size = d.size_spin,
           !.thickness = d.thickness_spin]

\* accept: what the object behind the global name cursor_settings holds
\* afterwards.  The widget values are written first; "Standard" then only
\* rebinds the dialog's own attribute to a new CursorSettings object.
Accept(cs, d) ==
    LET written == [cs EXCEPT
                      !.enabled = d.enabled_checkbox,
                      !.style = IF d.style_combo = "Kreis" THEN "circle"
                                ELSE "cross",
                      !.size = d.size_spin,
                      !.thickness = d.thickness_spin]
    IN  IF d.predefined_combo = "Deaktiviert"
        THEN [written EXCEPT !.enabled = FALSE]
        ELSE IF d.predefined_combo = "Helles Kreuz"
        THEN [written EXCEPT !.enabled = TRUE, !.style = "cross",
                             !.size = BrightCrossSize,
                             !.thickness = BrightCrossThickness,
                             !.color = "yellow"]
        ELSE written

DialogFrame == <<proc, uncaught, screens, wayland, preview,
                 quick_menu, selected_screen, viewer, viewers, fs>>

on_cursor_settings ==
    /\ UserCanAct
    /\ UserIdle
    /\ dialog' = OpenDialog(cursor_settings)
    /\ Quiet
    /\ UNCHANGED <<cursor_settings, DialogFrame>>

\* The user changes one widget of the open dialog.
dialog_edit ==
    /\ UserCanAct
    /\ dialog.open
    /\ \/ \E b \in BOOLEAN : dialog' = [dialog EXCEPT !.enabled_checkbox = b]
       \/ \E t \in StyleTexts : dialog' = [dialog EXCEPT !.style_combo = t]
       \/ \E n \in SizeChoices :
             dialog' = [dialog EXCEPT
                          !.size_spin = Clamp(n, SizeSpinMin, SizeSpinMax)]
       \/ \E n \in ThicknessChoices :
             dialog' = [dialog EXCEPT
                          !.thickness_spin =
                             Clamp(n, ThicknessSpinMin, ThicknessSpinMax)]
       \/ \E q \in Presets : dialog' = [dialog EXCEPT !.predefined_combo = q]
    /\ dialog' # dialog
    /\ Quiet
    /\ UNCHANGED <<cursor_settings, DialogFrame>>

\* "Farbe auswaehlen" inside the open dialog.
select_color ==
    /\ UserCanAct
    /\ dialog.open
    /\ \E c \in ColorChoices : cursor_settings' = SelectColor(cursor_settings, c)
    /\ Quiet
    /\ UNCHANGED <<dialog, DialogFrame>>

\* OK
dialog_accept ==
    /\ UserCanAct
    /\ dialog.open
    /\ cursor_settings' = Accept(cursor_settings, dialog)
    /\ dialog' = ClosedDialog
    /\ lastAccept' = dialog
    /\ lastTick' = NoTick /\ lastCapture' = NoCapture
    /\ UNCHANGED DialogFrame

\* Abbrechen
dialog_reject ==
    /\ UserCanAct
    /\ dialog.open
    /\ dialog' = ClosedDialog
    /\ Quiet
    /\ UNCHANGED <<cursor_settings, DialogFrame>>

\* ------------------------------------------------------- specifications
\* The mirror: the tray's start, stop and screen selection, the viewers'
\* timers, the captures and the screens coming and going.  The cursor
\* settings change here through the quick menu's toggle alone.
Next ==
    \/ main
    \/ quit
    \/ ScreenAdded
    \/ ScreenRemoved
    \/ \E v \in ViewerIds : update_screen(v)
    \/ \E v \in ViewerIds : DeferredDelete(v)
    \/ \E v \in ViewerIds : window_close(v)
    \/ on_start_program
    \/ on_stop_program
    \/ show_quick_settings
    \/ quick_dismiss
    \/ quick_select_screen
    \/ quick_start_stop
    \/ toggle_cursor
    \/ on_select_screen_open
    \/ on_select_screen_accept
    \/ on_select_screen_reject

Spec == Init /\ [][Next]_vars

\* The cursor settings: the settings dialog, the quick menu's toggle and the
\* ticks of a started mirror, which read the settings; the screens stay as
\* they were at startup.
NextCursor ==
    \/ main
    \/ \E v \in ViewerIds : update_screen(v)
    \/ on_start_program
    \/ show_quick_settings
    \/ quick_dismiss
    \/ toggle_cursor
    \/ on_cursor_settings
    \/ dialog_edit
    \/ select_color
    \/ dialog_accept
    \/ dialog_reject

SpecCursor == Init /\ [][NextCursor]_vars

\* ================================================================= claims
Failures == {"NoScreens", "InvalidIndex", "ToolFailed", "EmptyImage"}

\* C1: a tick whose capture fails (no screens, index out of range, grim
\* exiting non-zero, null image) lets no exception out of update_screen,
\* leaves current_pixmap and the label's image as they were, and leaves the
\* viewer alive with its timer armed in a running process.
C1_FailedTickKeepsFrame ==
    [][\A v \in ViewerIds :
          (lastTick'.v = v /\ lastCapture'.status \in Failures) =>
             /\ uncaught' = None
             /\ proc' = "running"
             /\ viewers'[v].current_pixmap = viewers[v].current_pixmap
             /\ viewers'[v].label_pixmap = viewers[v].label_pixmap
             /\ viewers'[v].life = "alive"
             /\ viewers'[v].timerActive]_vars

\* A failed tick of a viewer that shows a frame from an earlier tick.
C1_Witness ==
    \E v \in ViewerIds :
       /\ lastTick.v = v
       /\ lastCapture.status \in Failures \ {"InvalidIndex"}
       /\ viewers[v].current_pixmap \in Frames
       /\ viewers[v].label_pixmap = viewers[v].current_pixmap
       /\ viewers[v].timerActive

OutOfRange(c) == c.status # None /\ ~(0 <= c.index /\ c.index < c.count)
NothingAttempted(c) == ~c.grabWindow /\ ~c.grim /\ c.tmpCreated = 0

\* C2 as claimed: every index outside [0, count) fails with the
\* invalid-index error, the capture never attempted.
C2_AsClaimed ==
    OutOfRange(lastCapture) =>
       lastCapture.status = "InvalidIndex" /\ NothingAttempted(lastCapture)

\* C2, amended: every index outside [0, count) fails with the capture never
\* attempted (no grabWindow, no temporary file, no grim), with the
\* invalid-index error when count > 0 and with the no-screens error when
\* count = 0; count is the number of screens at the moment of the call, and
\* an index inside the range is never refused as invalid.
C2_OutOfRangeRejected ==
    /\ OutOfRange(lastCapture) =>
          /\ NothingAttempted(lastCapture)
          /\ lastCapture.status =
                IF lastCapture.count = 0 THEN "NoScreens" ELSE "InvalidIndex"
    /\ lastCapture.status # None => lastCapture.count = screens
    /\ lastCapture.status = "InvalidIndex" => OutOfRange(lastCapture)

\* A viewer whose index was valid, as the frame it shows proves, is refused
\* after the screen count dropped to its index.
C2_Witness ==
    \E v \in ViewerIds :
       /\ lastTick.v = v
       /\ lastCapture.status = "InvalidIndex"
       /\ lastCapture.index = viewers[v].monitor_index
       /\ lastCapture.index >= screens /\ screens > 0
       /\ viewers[v].current_pixmap \in Frames

\* C3: once a capture call has returned or raised, no temporary file is
\* left, on every exit path of the grim capture, and a call creates at most
\* one temporary file (exactly one when it got as far as running grim).
C3_NoTempFileLeft ==
    /\ fs = {}
    /\ lastCapture.tmpCreated <= 1
    /\ lastCapture.grim => lastCapture.tmpCreated = 1

\* A grim capture that failed after its temporary file was created.
C3_Witness ==
    /\ wayland
    /\ lastCapture.status \in {"ToolFailed", "EmptyImage"}
    /\ lastCapture.tmpCreated = 1
    /\ fs = {}

\* The tray's start and stop actions, from either menu.
StartStep == on_start_program \/ (quick_menu.startstop = "start" /\ quick_start_stop)
StopStep == on_stop_program \/ (quick_menu.startstop = "stop" /\ quick_start_stop)

\* C4: a close request on a mirror window only hides it: the viewer stays
\* alive, held by the tray, with its timer armed and not queued for
\* deletion; a hidden viewer goes on ticking; and a following start with the
\* selected screen unchanged shows that same viewer again, constructing none.
C4_CloseHidesAndStartReshows ==
    [][/\ \A v \in ViewerIds :
             window_close(v) =>
                /\ ~viewers'[v].visible
                /\ viewers'[v].life = "alive"
                /\ viewers'[v].timerActive
                /\ ~viewers'[v].deleteLater
                /\ viewer' = viewer
                /\ proc' = "running"
       /\ (/\ StartStep
           /\ viewer # NoViewer
           /\ viewers[viewer].monitor_index = selected_screen) =>
             /\ viewer' = viewer
             /\ viewers' = [viewers EXCEPT ![viewer].visible = TRUE]
             /\ selected_screen' = selected_screen]_vars

\* The tray's viewer is hidden after a close request and has just ticked.
C4_Witness ==
    /\ viewer # NoViewer
    /\ ~viewers[viewer].visible
    /\ viewers[viewer].timerActive
    /\ viewers[viewer].monitor_index = selected_screen
    /\ lastTick.v = viewer
    /\ lastCapture.status = "ok"

TimerArmed(w) == w.life = "alive" /\ w.timerActive

\* C5 as claimed: once the stop action has run, the tray holds no viewer and
\* no viewer's timer is armed.
C5_AsClaimed ==
    [][StopStep =>
          /\ viewer' = NoViewer
          /\ \A v \in ViewerIds : ~TimerArmed(viewers'[v])]_vars

\* C5, amended: the stop action leaves the tray without a viewer and the
\* stopped viewer hidden and queued for deletion, its timer still armed: the
\* handler does not disarm it.  Whenever the tray holds no viewer, every
\* viewer that still lives is such a hidden viewer awaiting deletion; its
\* timer goes when the deferred deletion is delivered, a destroyed viewer
\* never ticks again, and only a start or a screen selection brings a new
\* viewer.
C5_StopQueuesDeletion ==
    [][/\ StopStep =>
             /\ viewer' = NoViewer
             /\ viewer # NoViewer =>
                   /\ viewers'[viewer].deleteLater
                   /\ ~viewers'[viewer].visible
                   /\ TimerArmed(viewers'[viewer])
       /\ viewer' = NoViewer =>
             \A v \in ViewerIds :
                viewers'[v].life = "alive" =>
                   viewers'[v].deleteLater /\ ~viewers'[v].visible
       /\ \A v \in ViewerIds :
             /\ DeferredDelete(v) => ~TimerArmed(viewers'[v])
             /\ lastTick'.v = v => TimerArmed(viewers[v])
             /\ viewers[v].life = "destroyed" => viewers'[v].life = "destroyed"
             /\ (viewers[v].life = "unborn" /\ viewers'[v].life # "unborn") =>
                   \/ StartStep
                   \/ quick_select_screen
                   \/ on_select_screen_accept]_vars

\* After a stop the tray holds no viewer, and the stopped viewer, not yet
\* deleted, has just ticked.
C5_Witness ==
    \E v \in ViewerIds :
       /\ viewer = NoViewer
       /\ viewers[v].deleteLater
       /\ TimerArmed(viewers[v])
       /\ lastTick.v = v
       /\ lastCapture.status = "ok"

\* C10 as claimed: after startup no handler lets an exception escape, so the
\* process is never ended by one.
C10_AsClaimed == uncaught = None /\ proc # "aborted"

\* The settings, field by field.
Fields == {"enabled", "style", "size", "thickness", "color"}
Changed == {f \in Fields : cursor_settings'[f] # cursor_settings[f]}

\* C6 as claimed: every field of the global settings keeps its value across
\* every step that is not the dialog's accept.
C6_AsClaimed ==
    [][Changed # {} => dialog.open /\ ~dialog'.open /\ lastAccept' = dialog]_vars

\* C6, amended: the global settings change in three places only.  The
\* dialog's accept may change any field; picking a valid colour in the open
\* dialog changes the colour at once and nothing else, and rejecting the
\* dialog afterwards changes nothing back; the quick menu's toggle flips
\* enabled and nothing else.  Every other step keeps every field, and the
\* colour is always a valid one.
C6_SettingsWriters ==
    [][/\ Changed # {} =>
             \/ dialog.open /\ ~dialog'.open /\ lastAccept' = dialog
             \/ Changed = {"color"} /\ dialog.open /\ dialog' = dialog
             \/ Changed = {"enabled"} /\ quick_menu.shown /\ ~quick_menu'.shown
       /\ (dialog.open /\ ~dialog'.open /\ lastAccept' # dialog) =>
             Changed = {}
       /\ cursor_settings'.color \in {"red", "yellow"}]_vars

\* A colour was picked in a dialog that was then rejected: the settings are
\* the initial ones but for the colour.
C6_Witness ==
    /\ ~dialog.open
    /\ lastAccept = ClosedDialog
    /\ cursor_settings = [CursorSettings EXCEPT !.color = "yellow"]
    /\ ~quick_menu.shown
    /\ lastTick = NoTick
    /\ viewer = NoViewer

\* The values the presets are named for.
BrightCross == [enabled |-> TRUE, style |-> "cross", size |-> BrightCrossSize,
                thickness |-> BrightCrossThickness, color |-> "yellow"]

\* C7 as claimed: accepting the dialog with a preset selected overwrites the
\* global settings with the preset's values: "Standard" leaves them equal to
\* a new CursorSettings, "Helles Kreuz" to the bright cross, "Deaktiviert"
\* leaves enabled false.
C7_AsClaimed ==
    [][lastAccept'.open =>
          /\ lastAccept'.predefined_combo = "Standard" =>
                cursor_settings' = CursorSettings
          /\ lastAccept'.predefined_combo = "Helles Kreuz" =>
                cursor_settings' = BrightCross
          /\ lastAccept'.predefined_combo = "Deaktiviert" =>
                ~cursor_settings'.enabled]_vars

\* C8: accepting the dialog with "Deaktiviert" selected leaves enabled
\* false, whatever it was before and whatever the checkbox holds.
C8_DisabledPreset ==
    [][(lastAccept'.open /\ lastAccept'.predefined_combo = "Deaktiviert") =>
          ~cursor_settings'.enabled]_vars

\* "Deaktiviert" was accepted with the checkbox ticked.
C8_Witness ==
    /\ lastAccept.open
    /\ lastAccept.predefined_combo = "Deaktiviert"
    /\ lastAccept.enabled_checkbox
    /\ ~cursor_settings.enabled

\* The centre of what the painter was asked to draw: of the ellipse's
\* bounding box, or of two segments that cross at their midpoints.
IsCircle(d) == Len(d) = 1 /\ d[1].op = "ellipse" /\ d[1].c = d[1].d
IsCross(d) ==
    /\ Len(d) = 2 /\ d[1].op = "line" /\ d[2].op = "line"
    /\ d[1].b = d[1].d /\ d[2].a = d[2].c
    /\ 2 * d[2].a = d[1].a + d[1].c
    /\ 2 * d[1].b = d[2].b + d[2].d
Centre2(d) ==
    IF d[1].op = "ellipse"
    THEN <<2 * d[1].a + d[1].c, 2 * d[1].b + d[1].d>>
    ELSE <<2 * d[2].a, 2 * d[1].b>>

\* C9: in a successful tick one marker, a circle or a cross, is drawn,
\* centred on the pointer position less the monitor's origin, when the
\* cursor is enabled and that local position lies in [0,width] x [0,height],
\* edges included; nothing is drawn otherwise.  The style is always circle
\* or cross.
C9_MarkerDrawn ==
    /\ cursor_settings.style \in {"circle", "cross"}
    /\ (lastTick.v # NoViewer /\ lastCapture.status = "ok") =>
          LET g == Geometry(viewers[lastTick.v].monitor_index)
              lx == lastTick.px - g.x
              ly == lastTick.py - g.y
              d == lastTick.drawn
          IN  IF /\ cursor_settings.enabled
                 /\ 0 <= lx /\ lx <= g.width
                 /\ 0 <= ly /\ ly <= g.height
              THEN /\ IsCircle(d) \/ IsCross(d)
                   /\ IsCircle(d) <=> cursor_settings.style = "circle"
                   /\ Centre2(d) = <<2 * lx, 2 * ly>>
              ELSE d = <<>>

\* A cross of the preset's size drawn with the pointer on the far corner of
\* the monitor, which is not at the origin of the desktop.
C9_Witness ==
    /\ lastTick.v # NoViewer
    /\ lastCapture.status = "ok"
    /\ cursor_settings.style = "cross"
    /\ cursor_settings.size = BrightCrossSize
    /\ IsCross(lastTick.drawn)
    /\ Geometry(viewers[lastTick.v].monitor_index).x # 0
    /\ lastTick.px - Geometry(viewers[lastTick.v].monitor_index).x =
          Geometry(viewers[lastTick.v].monitor_index).width
    /\ lastTick.py = Geometry(viewers[lastTick.v].monitor_index).height

\* The viewers the tray could still show: alive and not queued for deletion.
Kept == {v \in ViewerIds : viewers[v].life = "alive" /\ ~viewers[v].deleteLater}

\* C11: after every tray action the tray holds at most one viewer: the one
\* it names, if any, is alive and not queued for deletion, and every other
\* viewer is unborn, destroyed or queued for deletion.  A held viewer's
\* monitor_index equals the tray's selected_screen.  A start with no screen
\* selected selects monitor 0 and shows a viewer of monitor 0, if any.
C11_OneViewerOfSelectedScreen ==
    [][/\ viewer' \in ViewerIds \cup {NoViewer}
       /\ Kept' = IF viewer' = NoViewer THEN {} ELSE {viewer'}
       /\ viewer' # NoViewer =>
             viewers'[viewer'].monitor_index = selected_screen'
       /\ (StartStep /\ selected_screen = NoSelection) =>
             /\ selected_screen' = 0
             /\ viewer' # NoViewer => viewers'[viewer'].monitor_index = 0]_vars

\* The tray holds a viewer of screen 1, selected after a viewer of screen 0
\* that is now queued for deletion.
C11_Witness ==
    /\ viewer # NoViewer
    /\ selected_screen = 1
    /\ viewers[viewer].monitor_index = 1
    /\ \E w \in ViewerIds \ {viewer} :
          /\ viewers[w].life = "alive"
          /\ viewers[w].deleteLater
          /\ viewers[w].monitor_index = 0

====
